---- MODULE Spec2Model ----
(***************************************************************************)
(* A model of the plugin lifecycle controller of plugin_manager:           *)
(* Plugin.Load / Unload / Reload / GetFunc of src/plugin.go, the           *)
(* registration callback Load hands to the artifact, the RWMutex every     *)
(* Plugin embeds, and the reflective invoke closure GetFunc builds.        *)
(*                                                                         *)
(* Callers are goroutines (Threads).  Each call is cut into the steps at   *)
(* which another goroutine, or a lock-free reader of the record, can       *)
(* observe the record; th[t].pc is the caller's position.  The state in    *)
(* which pc is "LoadRet", "UnloadRet", "GetFuncRet" or "ReloadRet" is the  *)
(* moment of return: the return value is fixed and the deferred            *)
(* Unlock/RUnlock has not run yet.                                         *)
(***************************************************************************)
EXTENDS Naturals, Sequences, FiniteSets

\* ------------------------------------------------------------- bounds
MaxVersion == 2
MaxParams == 2
MaxReturns == 2

\* The goroutines that call into the records.
Threads == {"t1", "t2"}
\* Two records of one Manager.  The callers exercise p with every call, in
\* every interleaving, on an artifact of any behaviour; q is a second record
\* that is only ever loaded, its Load runs while no other call is in
\* progress (Admit), and its artifact is well-formed: it opens, has both
\* exports, and declares OtherDecl.
Recs == {"p", "q"}
Exercised == {"p"}
Funs == {"f", "g"}
\* The names package-level callers ask the Manager for.
Modules == {"echo", "other"}

\* What an artifact may declare of itself: nothing ("" and 0), or "echo" at
\* a version from 1 on.
Decls == {<<"", 0>>} \cup {<<"echo", v>> : v \in 1..MaxVersion}

\* The symbol tables of the artifacts: complete, lacking the Load export,
\* lacking the Unload export.  No artifact exports "g".
SymbolTables ==
  {{"Load", "Unload", "f"}, {"Unload", "f"}, {"Load", "f"}}

\* The artifact of q: its symbol table and what it declares.
OtherTable == {"Load", "Unload", "f"}
OtherDecl == <<"echo", 1>>

NoRec == "-"

\* ------------------------------------------------------- PluginStatus
PluginStatusNone == "None"
PluginStatusLoading == "Loading"
PluginStatusLoaded == "Loaded"
PluginStatusReloading == "Reloading"
PluginStatusUnloading == "Unloading"
PluginStatusUnloaded == "Unloaded"

PluginStatus ==
  {PluginStatusNone, PluginStatusLoading, PluginStatusLoaded,
   PluginStatusReloading, PluginStatusUnloading, PluginStatusUnloaded}

\* ------------------------------------------------------------- errors
Nil == "nil"
ErrOpen == "OpenFailed"
ErrSymbol == "SymbolNotFound"
ErrDuplicate == "can't double load plugin"
ErrNotLoaded == "plugin not loaded"
ErrArtifact == "artifact error"
ErrArity == "The number of params is not adapted."
ErrType == "the type of params is not adapted"
NoRet == "-"

VARIABLES
  status,      \* Plugin.status, per record
  name,        \* Plugin.name
  version,     \* Plugin.version
  plugin,      \* Plugin.plugin: Nil, or the handle Open returned
  cache,       \* Plugin.cache: the exported names that have a binding
  mu,          \* the embedded sync.RWMutex: writer and readers
  artifact,    \* the artifact loader's memo per path: open result and symbols
  registry,    \* the Manager: the (name, version, record) it was given
  lastExport,  \* history: the export of the artifact that ran last
  afterUnload, \* history: an Unload that ran has returned, no Load since
  everLoaded,  \* history: the status of the record has been Loaded
  tally,       \* history: what Load did since the status was last at rest
  binds,       \* history: the binds of each name since the cache was cleared
  th,          \* per goroutine: the call in progress and its locals
  inv          \* the bound function and call of the invoke closure

recVars == <<status, name, version, plugin, cache>>
envVars == <<artifact, registry, lastExport>>
histVars == <<everLoaded, tally, binds>>
vars == <<status, name, version, plugin, cache, mu, artifact, registry,
          lastExport, afterUnload, everLoaded, tally, binds, th, inv>>

\* ------------------------------------------------- goroutine locals
NoRes == [panic |-> FALSE, dispatched |-> FALSE, out |-> <<>>]

Idle ==
  [op |-> "idle", rec |-> NoRec, pc |-> "idle", ret |-> NoRet, fun |-> "",
   rn |-> "", rv |-> 0, cb |-> NoRet, xret |-> NoRet, uerr |-> NoRet,
   ran |-> FALSE, s0 |-> PluginStatusNone, n0 |-> "", v0 |-> 0, solo |-> TRUE,
   got |-> {}, hit |-> FALSE, params |-> <<>>, res |-> NoRes]

\* op, rec, pc: the call and the caller's position in it.
\* ret: the value the call returns (NoRet until it is fixed).
\* fun: GetFunc's argument.   rn, rv: the arguments of register.
\* cb: what register returned.  xret: what the Load export returned.
\* uerr: what the Unload export returned.  ran: Unload passed its guard.
\* s0, n0, v0: status, name and version when Reload was called.
\* got: the binding GetFunc returns, named by its serial number since the
\* cache was cleared ({} when it returns none).  hit: it was in the cache.
\* params, res: the arguments Call passes on and what it returns.
\* solo: no other call on the record was in progress since this one began.

Active(r) == {u \in Threads : th[u].op # "idle" /\ th[u].rec = r}

\* The scenario's bound on who may start a call on r (no code).
Admit(r) ==
  IF r \in Exercised
    THEN \A u \in Threads : th[u].rec \in Exercised \cup {NoRec}
    ELSE \A u \in Threads : th[u].op = "idle"

\* The locals of a call that is between two steps of Reload or of Call and
\* is not the only call on its record: what Unload and Load left in them is
\* dead in the code, and is kept as history (s0, n0, v0, ran, uerr, rn, rv,
\* cb, xret) only for a call that ran alone.  So are, once GetFunc has
\* returned in a Call, the arguments and the result of the Call.
Forget(loc) ==
  [Idle EXCEPT !.op = loc.op, !.rec = loc.rec, !.pc = loc.pc, !.ret = loc.ret,
               !.solo = FALSE]

Keep(loc) == IF loc.solo THEN loc ELSE Forget(loc)

\* A goroutine t starts a call on record r: every call already in progress
\* on r is no longer the only one (solo is history, read by no code).
Begin(t, r, loc) ==
  th' = [u \in Threads |->
           IF u = t THEN [loc EXCEPT !.solo = (Active(r) = {})]
           ELSE IF u \in Active(r) THEN Forget(th[u])
           ELSE th[u]]

\* ------------------------------------------------------------ history
\* tally: since the status was last written None or Unloaded, how often the
\* status was set Loading, the Load export was invoked, and OnLoaded called.
NoTally == [loading |-> 0, exports |-> 0, onLoaded |-> 0]

\* binds: per exported name, the bindings made since the cache was cleared.
NoBinds == [f \in Funs |-> 0]

\* The tally once the status s is written on record r.
Settle(r, s) ==
  [tally EXCEPT ![r] = IF s \in {PluginStatusNone, PluginStatusUnloaded}
                         THEN NoTally ELSE @]

\* everLoaded once the status s is written on record r.
Reached(r, s) == [everLoaded EXCEPT ![r] = @ \/ s = PluginStatusLoaded]

\* ---------------------------------------------------------- RWMutex
\* w: the goroutine holding the write lock (at most one); rd: the goroutines
\* holding a read lock.
Unlocked == [w |-> {}, rd |-> {}]
CanLock(r) == mu[r].w = {} /\ mu[r].rd = {}
CanRLock(r) == mu[r].w = {}
Lock(t, r) == mu' = [mu EXCEPT ![r].w = {t}]
Unlock(t, r) == mu' = [mu EXCEPT ![r].w = {}]
RLock(t, r) == mu' = [mu EXCEPT ![r].rd = @ \cup {t}]
RUnlock(t, r) == mu' = [mu EXCEPT ![r].rd = @ \ {t}]

\* ---------------------------------------------------- artifact loader
\* Open is memoized per path: the first Open of a path decides, every later
\* one returns the same handle or the same error.  Each record has its own
\* path; the handle is named by the record.
Unopened == [st |-> "unopened", syms |-> {}]
OpenFailed == [st |-> "failed", syms |-> {}]
Opened(S) == [st |-> "ok", syms |-> S]

Open(r) ==
  IF artifact[r].st # "unopened" THEN {artifact[r]}
  ELSE IF r \in Exercised
    THEN {OpenFailed} \cup {Opened(S) : S \in SymbolTables}
    ELSE {Opened(OtherTable)}

\* Lookup(handle, symName): the symbol table of an opened artifact is fixed.
Lookup(r, sym) == sym \in artifact[r].syms

\* ------------------------------------------------------------ Manager
\* GetPluginWithVersion(name, version): the records registered under it.
GetPluginWithVersion(n, v) == {e \in registry : e[1] = n /\ e[2] = v}

\* OnLoaded(p): the Manager keeps p under the name and version it has now.
OnLoaded(r) == registry \cup {<<name[r], version[r], r>>}

\* --------------------------------------------------------------- Load
\* A guard of Load that lets a Loading record be loaded again.
LoadNoop_m(s) == s = PluginStatusLoaded

\* plugin.go:109, the guard of Load: a no-op unless None or Unloaded.
LoadNoop(s) == s # PluginStatusNone /\ s # PluginStatusUnloaded

\* A callback that forgets to revert the status on a duplicate.
RegisterStatus_m(found) ==
  IF found THEN PluginStatusLoading ELSE PluginStatusLoaded

\* plugin.go:132-139, the status the registration callback sets.
RegisterStatus(found) ==
  IF found THEN PluginStatusNone ELSE PluginStatusLoaded

\* plugin.go:133-136, what the registration callback returns on a duplicate.
RegisterError == ErrDuplicate

\* A Load that forgets to revert the status when Open or Lookup fails.
LoadFailStatus_m == PluginStatusLoading

\* plugin.go:117 and :124, the status after a failed Open or Lookup.
LoadFailStatus == PluginStatusNone

\* p.Load() called by a goroutine of its own: p.Lock() (plugin.go:107).
CallLoad(t, r) ==
  /\ th[t].pc = "idle"
  /\ CanLock(r)
  /\ Lock(t, r)
  /\ Begin(t, r, [Idle EXCEPT !.op = "Load", !.rec = r, !.pc = "LoadCheck"])
  /\ afterUnload' = [afterUnload EXCEPT ![r] = FALSE]
  /\ UNCHANGED <<recVars, envVars, inv, histVars>>

\* plugin.go:109-112: return nil, or set Loading.
LoadCheck(t) ==
  LET r == th[t].rec IN
  /\ th[t].pc = "LoadCheck"
  /\ IF LoadNoop(status[r])
       THEN /\ th' = [th EXCEPT ![t].ret = Nil, ![t].pc = "LoadRet"]
            /\ UNCHANGED <<status, tally>>
       ELSE /\ status' = [status EXCEPT ![r] = PluginStatusLoading]
            /\ tally' = [tally EXCEPT ![r].loading = @ + 1]
            /\ th' = [th EXCEPT ![t].pc = "LoadOpen"]
  /\ UNCHANGED <<name, version, plugin, cache, mu, envVars, afterUnload, inv,
                 everLoaded, binds>>

\* plugin.go:113-120: Open(path); on error revert to None and return it.
LoadOpen(t) ==
  LET r == th[t].rec IN
  /\ th[t].pc = "LoadOpen"
  /\ \E a \in Open(r) :
       /\ artifact' = [artifact EXCEPT ![r] = a]
       /\ IF a.st = "failed"
            THEN /\ status' = [status EXCEPT ![r] = LoadFailStatus]
                 /\ tally' = Settle(r, LoadFailStatus)
                 /\ th' = [th EXCEPT ![t].ret = ErrOpen, ![t].pc = "LoadRet"]
                 /\ UNCHANGED plugin
            ELSE /\ plugin' = [plugin EXCEPT ![r] = r]
                 /\ th' = [th EXCEPT ![t].pc = "LoadLookup"]
                 /\ UNCHANGED <<status, tally>>
  /\ UNCHANGED <<name, version, cache, mu, registry, lastExport, afterUnload,
                 inv, everLoaded, binds>>

\* plugin.go:121-126: Lookup("Load"); on error revert to None and return it.
LoadLookup(t) ==
  LET r == th[t].rec IN
  /\ th[t].pc = "LoadLookup"
  /\ IF Lookup(r, "Load")
       THEN /\ th' = [th EXCEPT ![t].pc = "LoadExport"]
            /\ UNCHANGED <<status, tally>>
       ELSE /\ status' = [status EXCEPT ![r] = LoadFailStatus]
            /\ tally' = Settle(r, LoadFailStatus)
            /\ th' = [th EXCEPT ![t].ret = ErrSymbol, ![t].pc = "LoadRet"]
  /\ UNCHANGED <<name, version, plugin, cache, mu, envVars, afterUnload, inv,
                 everLoaded, binds>>

\* What the artifact's Load export does with the callback: it calls it at
\* most once (the artifact contract), with a name and version of its choice.
ExportChoices(r) ==
  IF r \in Exercised
    THEN {[call |-> FALSE, n |-> "", v |-> 0]} \cup
         {[call |-> TRUE, n |-> d[1], v |-> d[2]] : d \in Decls}
    ELSE {[call |-> TRUE, n |-> OtherDecl[1], v |-> OtherDecl[2]]}

\* plugin.go:144: the Load export starts running, and either calls
\* register(name, version) or goes on without.
LoadExport(t) ==
  LET r == th[t].rec IN
  /\ th[t].pc = "LoadExport"
  /\ lastExport' = [lastExport EXCEPT ![r] = "Load"]
  /\ \E c \in ExportChoices(r) :
       th' = [th EXCEPT ![t].rn = c.n, ![t].rv = c.v,
                        ![t].pc = IF c.call THEN "RegName" ELSE "ExportRet"]
  /\ tally' = [tally EXCEPT ![r].exports = @ + 1]
  /\ UNCHANGED <<recVars, mu, artifact, registry, afterUnload, inv,
                 everLoaded, binds>>

\* plugin.go:128: p.name = name.
RegName(t) ==
  LET r == th[t].rec IN
  /\ th[t].pc = "RegName"
  /\ name' = [name EXCEPT ![r] = th[t].rn]
  /\ th' = [th EXCEPT ![t].pc = "RegVersion"]
  /\ UNCHANGED <<status, version, plugin, cache, mu, envVars, afterUnload, inv,
                 histVars>>

\* A callback that keeps the version a record already has.
RegVersion_m(t) ==
  LET r == th[t].rec IN
  /\ th[t].pc = "RegVersion"
  /\ version' = [version EXCEPT ![r] = IF @ = 0 THEN th[t].rv ELSE @]
  /\ th' = [th EXCEPT ![t].pc = "RegCheck"]
  /\ UNCHANGED <<status, name, plugin, cache, mu, envVars, afterUnload, inv,
                 histVars>>

\* plugin.go:129: p.version = version.
RegVersion(t) ==
  LET r == th[t].rec IN
  /\ th[t].pc = "RegVersion"
  /\ version' = [version EXCEPT ![r] = th[t].rv]
  /\ th' = [th EXCEPT ![t].pc = "RegCheck"]
  /\ UNCHANGED <<status, name, plugin, cache, mu, envVars, afterUnload, inv,
                 histVars>>

\* plugin.go:131-139: the duplicate check; None and the error, or Loaded.
RegCheck(t) ==
  LET r == th[t].rec
      found == GetPluginWithVersion(th[t].rn, th[t].rv) # {}
  IN
  /\ th[t].pc = "RegCheck"
  /\ status' = [status EXCEPT ![r] = RegisterStatus(found)]
  /\ th' = [th EXCEPT ![t].cb = IF found THEN RegisterError ELSE NoRet,
                      ![t].pc = IF found THEN "ExportRet" ELSE "RegNotify"]
  /\ tally' = Settle(r, RegisterStatus(found))
  /\ everLoaded' = Reached(r, RegisterStatus(found))
  /\ UNCHANGED <<name, version, plugin, cache, mu, envVars, afterUnload, inv,
                 binds>>

\* plugin.go:140-141: p.m.OnLoaded(p); the callback returns nil.
RegNotify(t) ==
  LET r == th[t].rec IN
  /\ th[t].pc = "RegNotify"
  /\ registry' = OnLoaded(r)
  /\ th' = [th EXCEPT ![t].cb = Nil, ![t].pc = "ExportRet"]
  /\ tally' = [tally EXCEPT ![r].onLoaded = @ + 1]
  /\ UNCHANGED <<recVars, mu, artifact, lastExport, afterUnload, inv,
                 everLoaded, binds>>

\* The errors a Load export may return: none, one of its own, or the one
\* the callback gave it.
ExportErrors(t) ==
  {Nil, ErrArtifact} \cup (IF th[t].cb \in {NoRet, Nil} THEN {} ELSE {th[t].cb})

\* plugin.go:144-146: the Load export returns e, and Load returns e.
ExportRet(t) ==
  /\ th[t].pc = "ExportRet"
  /\ \E e \in ExportErrors(t) :
       th' = [th EXCEPT ![t].xret = e, ![t].ret = e, ![t].pc = "LoadRet"]
  /\ UNCHANGED <<recVars, mu, envVars, afterUnload, inv, histVars>>

\* plugin.go:108, the deferred p.Unlock(); Load has returned.  Inside
\* Reload (plugin.go:153-155) an error ends Reload, nil goes on to RLock.
LoadReturn(t) ==
  LET r == th[t].rec IN
  /\ th[t].pc = "LoadRet"
  /\ Unlock(t, r)
  /\ th' = [th EXCEPT ![t] =
              IF th[t].op = "Load" THEN Idle
              ELSE Keep([@ EXCEPT !.pc = IF th[t].ret # Nil THEN "ReloadRet"
                                         ELSE "ReloadRLock"])]
  /\ UNCHANGED <<recVars, envVars, afterUnload, inv, histVars>>

\* ------------------------------------------------------------- Unload
\* A guard of Unload that lets a record that was never loaded through.
UnloadNoop_m(s) ==
  \/ s = PluginStatusUnloaded
  \/ s = PluginStatusUnloading

\* plugin.go:169-171, the guard of Unload.
UnloadNoop(s) ==
  \/ s = PluginStatusUnloaded
  \/ s = PluginStatusUnloading
  \/ s = PluginStatusNone

\* plugin.go:174: p.cache = make(map[string]*pluginFuncInfo).
ClearedCache == {}

\* An Unload that stops at Unloading.
UnloadStatus_m == PluginStatusUnloading

\* plugin.go:185: the status Unload sets once the export has run.
UnloadStatus == PluginStatusUnloaded

\* p.Unload() called by a goroutine of its own: p.Lock() (plugin.go:167).
CallUnload(t, r) ==
  /\ th[t].pc = "idle"
  /\ CanLock(r)
  /\ Lock(t, r)
  /\ Begin(t, r, [Idle EXCEPT !.op = "Unload", !.rec = r, !.pc = "UnloadCheck"])
  /\ UNCHANGED <<recVars, envVars, afterUnload, inv, histVars>>

\* plugin.go:169-177: return nil, or clear the cache and go on.
UnloadCheck(t) ==
  LET r == th[t].rec IN
  /\ th[t].pc = "UnloadCheck"
  /\ IF UnloadNoop(status[r])
       THEN /\ th' = [th EXCEPT ![t].ret = Nil, ![t].pc = "UnloadRet"]
            /\ UNCHANGED <<cache, binds>>
       ELSE /\ cache' = [cache EXCEPT ![r] = ClearedCache]
            /\ binds' = [binds EXCEPT ![r] = NoBinds]
            /\ th' = [th EXCEPT ![t].ran = TRUE, ![t].pc = "UnloadLookup"]
  /\ UNCHANGED <<status, name, version, plugin, mu, envVars, afterUnload, inv,
                 everLoaded, tally>>

\* plugin.go:178-182: p.plugin.Lookup("Unload"); on error return it, the
\* status as it was.  On a nil p.plugin the lookup dereferences nil: the
\* goroutine panics ("Panic" is final).
UnloadLookup(t) ==
  LET r == th[t].rec IN
  /\ th[t].pc = "UnloadLookup"
  /\ th' = [th EXCEPT
              ![t].ret = IF plugin[r] # Nil /\ ~Lookup(r, "Unload")
                           THEN ErrSymbol ELSE @,
              ![t].pc = IF plugin[r] = Nil THEN "Panic"
                        ELSE IF Lookup(r, "Unload") THEN "UnloadExport"
                        ELSE "UnloadRet"]
  /\ UNCHANGED <<recVars, mu, envVars, afterUnload, inv, histVars>>

\* plugin.go:183: err := f(), the artifact's Unload export.
UnloadExport(t) ==
  LET r == th[t].rec IN
  /\ th[t].pc = "UnloadExport"
  /\ lastExport' = [lastExport EXCEPT ![r] = "Unload"]
  /\ \E e \in {Nil, ErrArtifact} :
       th' = [th EXCEPT ![t].uerr = e, ![t].pc = "UnloadSet"]
  /\ UNCHANGED <<recVars, mu, artifact, registry, afterUnload, inv, histVars>>

\* plugin.go:185-186: p.setStatus(PluginStatusUnloaded); return err.
UnloadSet(t) ==
  LET r == th[t].rec IN
  /\ th[t].pc = "UnloadSet"
  /\ status' = [status EXCEPT ![r] = UnloadStatus]
  /\ th' = [th EXCEPT ![t].ret = th[t].uerr, ![t].pc = "UnloadRet"]
  /\ tally' = Settle(r, UnloadStatus)
  /\ UNCHANGED <<name, version, plugin, cache, mu, envVars, afterUnload, inv,
                 everLoaded, binds>>

\* plugin.go:168, the deferred p.Unlock(); Unload has returned.  Inside
\* Reload (plugin.go:150-152) an error ends Reload, nil goes on to Load.
UnloadReturn(t) ==
  LET r == th[t].rec IN
  /\ th[t].pc = "UnloadRet"
  /\ Unlock(t, r)
  /\ afterUnload' = [afterUnload EXCEPT ![r] = @ \/ th[t].ran]
  /\ th' = [th EXCEPT ![t] =
              IF th[t].op = "Unload" THEN Idle
              ELSE Keep([@ EXCEPT !.pc = IF th[t].ret # Nil THEN "ReloadRet"
                                         ELSE "ReloadLoad"])]
  /\ UNCHANGED <<recVars, envVars, inv, histVars>>

\* ------------------------------------------------------------- Reload
\* plugin.go:162: the status Reload writes last.
ReloadStatus == PluginStatusLoaded

\* p.Reload(): plugin.go:150, p.Unload(), which takes p.Lock().
CallReload(t, r) ==
  /\ th[t].pc = "idle"
  /\ CanLock(r)
  /\ Lock(t, r)
  /\ Begin(t, r, [Idle EXCEPT !.op = "Reload", !.rec = r, !.pc = "UnloadCheck",
                              !.s0 = status[r], !.n0 = name[r],
                              !.v0 = version[r]])
  /\ UNCHANGED <<recVars, envVars, afterUnload, inv, histVars>>

\* plugin.go:153: p.Load(), which takes p.Lock() again.
ReloadCallLoad(t) ==
  LET r == th[t].rec IN
  /\ th[t].pc = "ReloadLoad"
  /\ CanLock(r)
  /\ Lock(t, r)
  /\ afterUnload' = [afterUnload EXCEPT ![r] = FALSE]
  /\ th' = [th EXCEPT ![t].ret = NoRet, ![t].pc = "LoadCheck"]
  /\ UNCHANGED <<recVars, envVars, inv, histVars>>

\* plugin.go:156-161: p.RLock(); name and version are read for the log.
ReloadRLock(t) ==
  LET r == th[t].rec IN
  /\ th[t].pc = "ReloadRLock"
  /\ CanRLock(r)
  /\ RLock(t, r)
  /\ th' = [th EXCEPT ![t].ret = NoRet, ![t].pc = "ReloadSet"]
  /\ UNCHANGED <<recVars, envVars, afterUnload, inv, histVars>>

\* plugin.go:162-163: p.setStatus(PluginStatusLoaded); return nil.
ReloadSet(t) ==
  LET r == th[t].rec IN
  /\ th[t].pc = "ReloadSet"
  /\ status' = [status EXCEPT ![r] = ReloadStatus]
  /\ th' = [th EXCEPT ![t].ret = Nil, ![t].pc = "ReloadRet"]
  /\ tally' = Settle(r, ReloadStatus)
  /\ everLoaded' = Reached(r, ReloadStatus)
  /\ UNCHANGED <<name, version, plugin, cache, mu, envVars, afterUnload, inv,
                 binds>>

\* Reload has returned: plugin.go:157, the deferred p.RUnlock(), when the
\* read lock was taken (plugin.go:151 and :154 return without it).
ReloadReturn(t) ==
  LET r == th[t].rec IN
  /\ th[t].pc = "ReloadRet"
  /\ RUnlock(t, r)
  /\ th' = [th EXCEPT ![t] = Idle]
  /\ UNCHANGED <<recVars, envVars, afterUnload, inv, histVars>>

\* ------------------------------------------------- the invoke closure
\* The types of the bounded universe, and reflect.Type.Name() of each: a
\* defined type has its name, a composite one ([]int, []string) has "".
Types == {"string", "int", "[]int", "[]string"}
TypeName(ty) == IF ty \in {"string", "int"} THEN ty ELSE ""

\* An argument is a value of one of the types, named by its type, or the
\* untyped nil, for which reflect.ValueOf gives the zero Value.
NilArg == "nil"
Args == Types \cup {NilArg}

RECURSIVE SeqsUpTo(_, _)
SeqsUpTo(S, n) ==
  IF n = 0 THEN {<<>>}
  ELSE LET shorter == SeqsUpTo(S, n - 1)
       IN shorter \cup {Append(q, x) : q \in {z \in shorter : Len(z) = n - 1},
                                       x \in S}

\* plugin.go:226, out := make([]interface{}, len(info.outTypes)).
EmptyOut(lo) == [i \in 1..lo |-> Nil]

\* plugin.go:229 and :240, out[len(out)-1] = err: index -1 of an empty out
\* is out of range and panics.
ErrorOut(lo, err) ==
  IF lo = 0
    THEN [panic |-> TRUE, dispatched |-> FALSE, out |-> <<>>]
    ELSE [panic |-> FALSE, dispatched |-> FALSE,
          out |-> [EmptyOut(lo) EXCEPT ![lo] = err]]

\* plugin.go:233-243: the arguments the loop stops at.  in[k].Type() panics
\* on the zero Value of a nil argument; otherwise the names are compared.
Stops(inTypes, params) ==
  {k \in 1..Len(params) :
     params[k] = NilArg \/ TypeName(inTypes[k]) # TypeName(params[k])}

First(S) == CHOOSE k \in S : \A j \in S : k <= j

\* plugin.go:244-249: info.rfv.Call(in) panics on an argument that is not of
\* the parameter's type; else the function runs and fills every slot.
Dispatch(inTypes, lo, params) ==
  IF \E k \in 1..Len(params) : params[k] # inTypes[k]
    THEN [panic |-> TRUE, dispatched |-> FALSE, out |-> <<>>]
    ELSE [panic |-> FALSE, dispatched |-> TRUE,
          out |-> [i \in 1..lo |-> "result"]]

\* plugin.go:225-250, the closure f GetFunc returns, for a function bound
\* with the parameter types inTypes and lo return values.
Invoke(inTypes, lo, params) ==
  IF Len(params) # Len(inTypes) THEN ErrorOut(lo, ErrArity)
  ELSE IF Stops(inTypes, params) # {}
    THEN IF params[First(Stops(inTypes, params))] = NilArg
           THEN [panic |-> TRUE, dispatched |-> FALSE, out |-> <<>>]
           ELSE ErrorOut(lo, ErrType)
  ELSE Dispatch(inTypes, lo, params)

\* ------------------------------------------------------------ GetFunc
\* plugin.go:204, info, ok := p.cache[fun]: the cached binding of fun.
Cached(r, fun) == {e \in cache[r] : e[1] = fun}

\* A GetFunc that binds without looking into the cache.
Misses_m(r, fun) == plugin[r] # Nil /\ Lookup(r, fun)

\* plugin.go:200-211: GetFunc goes on to bind fun: the handle is there, the
\* cache has no binding of fun, and the artifact exports it.
Misses(r, fun) == plugin[r] # Nil /\ Cached(r, fun) = {} /\ Lookup(r, fun)

\* plugin.go:200-253, the body of GetFunc under the lock: the error it
\* returns (Nil with a callable) for the exported name fun.
GetFuncErr(r, fun) ==
  IF plugin[r] = Nil THEN ErrNotLoaded
  ELSE IF Cached(r, fun) # {} THEN Nil
  ELSE IF ~Lookup(r, fun) THEN ErrSymbol
  ELSE Nil

\* plugin.go:212-252: the cache GetFunc leaves; p.cache[fun] = info stores
\* the new binding under the name.
GetFuncCache(r, fun) ==
  IF Misses(r, fun)
    THEN (cache[r] \ Cached(r, fun)) \cup {<<fun, binds[r][fun] + 1>>}
    ELSE cache[r]

\* plugin.go:206 and :253: the callable GetFunc returns, info.fn of the
\* cached binding or the f it has just bound; none with an error.
GetFuncFn(r, fun) ==
  IF Misses(r, fun) THEN {binds[r][fun] + 1}
  ELSE IF plugin[r] # Nil THEN {e[2] : e \in Cached(r, fun)}
  ELSE {}

\* p.GetFunc(fun): p.Lock() (plugin.go:198).
CallGetFunc(t, r, fun) ==
  /\ th[t].pc = "idle"
  /\ CanLock(r)
  /\ Lock(t, r)
  /\ Begin(t, r, [Idle EXCEPT !.op = "GetFunc", !.rec = r, !.fun = fun,
                              !.pc = "GetFuncBody"])
  /\ UNCHANGED <<recVars, envVars, afterUnload, inv, histVars>>

\* plugin.go:200-253.
GetFuncBody(t) ==
  LET r == th[t].rec
      fun == th[t].fun
  IN
  /\ th[t].pc = "GetFuncBody"
  /\ cache' = [cache EXCEPT ![r] = GetFuncCache(r, fun)]
  /\ binds' = [binds EXCEPT ![r][fun] = IF Misses(r, fun) THEN @ + 1 ELSE @]
  /\ th' = [th EXCEPT ![t].ret = GetFuncErr(r, fun),
                      ![t].got = GetFuncFn(r, fun),
                      ![t].hit = plugin[r] # Nil /\ Cached(r, fun) # {},
                      ![t].pc = "GetFuncRet"]
  /\ UNCHANGED <<status, name, version, plugin, mu, envVars, afterUnload, inv,
                 everLoaded, tally>>

\* A Call that reports a failed GetFunc the way a bound function reports a
\* failed validation: the error in the last of the function's slots.
CallError_m(err) == <<Nil, err>>

\* plugin.go:191-193 and plugin_manager.go:19-21: return []interface{}{err}.
CallError(err) == <<err>>

\* plugin.go:199, the deferred p.Unlock(); GetFunc has returned.  Inside
\* Call (plugin.go:190-193) an error ends Call, nil goes on to f(params...).
GetFuncReturn(t) ==
  LET r == th[t].rec IN
  /\ th[t].pc = "GetFuncRet"
  /\ Unlock(t, r)
  /\ th' = [th EXCEPT ![t] =
              IF th[t].op = "GetFunc" THEN Idle
              ELSE IF th[t].ret # Nil
                THEN Keep([@ EXCEPT !.pc = "CallRet",
                                    !.res = [NoRes EXCEPT
                                               !.out = CallError(th[t].ret)],
                                    !.got = {}, !.hit = FALSE])
                ELSE Keep([@ EXCEPT !.pc = "CallInvoke", !.got = {},
                                    !.hit = FALSE])]
  /\ UNCHANGED <<recVars, envVars, afterUnload, inv, histVars>>

\* --------------------------------------------------------------- Call
\* The signature of the functions the artifacts export: "f" takes one
\* string and returns (string, error).
Signature == [inTypes |-> <<"string">>, lo |-> 2]

\* The argument lists the callers pass: too few, right, of another type.
CallArgs == {<<>>, <<"string">>, <<"int">>}

\* p.Call(fun, params...): plugin.go:190, p.GetFunc(fun), which takes
\* p.Lock().
CallCall(t, r, fun) ==
  /\ th[t].pc = "idle"
  /\ CanLock(r)
  /\ Lock(t, r)
  /\ Begin(t, r, [Idle EXCEPT !.op = "Call", !.rec = r, !.fun = fun,
                              !.pc = "GetFuncBody"])
  /\ UNCHANGED <<recVars, envVars, afterUnload, inv, histVars>>

\* The records the Manager has under the name module.
GetPlugin(module) == {e[3] : e \in {d \in registry : d[1] = module}}

\* What the Manager's GetFunc returns for a name it has no record under.
ErrNoPlugin == "plugin not found"

\* Call(module, function, args...) of the package: plugin_manager.go:18,
\* GetFunc(module, function) asks the Manager, which asks a record it has
\* under the name, or has none.
PkgCall(t, module, fun) ==
  /\ th[t].pc = "idle"
  /\ IF GetPlugin(module) = {}
       THEN /\ th' = [th EXCEPT ![t] =
                        [Idle EXCEPT !.op = "Call",
                                     !.ret = ErrNoPlugin, !.pc = "CallRet",
                                     !.res = [NoRes EXCEPT
                                                !.out = CallError(ErrNoPlugin)]]]
            /\ UNCHANGED mu
       ELSE \E r \in GetPlugin(module) \cap Exercised :
              /\ Admit(r)
              /\ CanLock(r)
              /\ Lock(t, r)
              /\ Begin(t, r, [Idle EXCEPT !.op = "Call", !.rec = r, !.fun = fun,
                                          !.pc = "GetFuncBody"])
  /\ UNCHANGED <<recVars, envVars, afterUnload, inv, histVars>>

\* plugin.go:194 and plugin_manager.go:23: return f(params...).
CallInvoke(t) ==
  /\ th[t].pc = "CallInvoke"
  /\ \E params \in CallArgs :
       th' = [th EXCEPT ![t] =
                Keep([@ EXCEPT !.params = params,
                               !.res = Invoke(Signature.inTypes, Signature.lo,
                                              params),
                               !.pc = "CallRet"])]
  /\ UNCHANGED <<recVars, mu, envVars, afterUnload, inv, histVars>>

\* Call has returned.
CallReturn(t) ==
  /\ th[t].pc = "CallRet"
  /\ th' = [th EXCEPT ![t] = Idle]
  /\ UNCHANGED <<recVars, mu, envVars, afterUnload, inv, histVars>>

\* ------------------------------------------------------ specification
NoInvoke == [phase |-> "none"]

Init ==
  /\ status = [r \in Recs |-> PluginStatusNone]
  /\ name = [r \in Recs |-> ""]
  /\ version = [r \in Recs |-> 0]
  /\ plugin = [r \in Recs |-> Nil]
  /\ cache = [r \in Recs |-> {}]
  /\ mu = [r \in Recs |-> Unlocked]
  /\ artifact = [r \in Recs |-> Unopened]
  /\ registry = {}
  /\ lastExport = [r \in Recs |-> "none"]
  /\ afterUnload = [r \in Recs |-> FALSE]
  /\ everLoaded = [r \in Recs |-> FALSE]
  /\ tally = [r \in Recs |-> NoTally]
  /\ binds = [r \in Recs |-> NoBinds]
  /\ th = [t \in Threads |-> Idle]
  /\ inv = NoInvoke

Next ==
  \E t \in Threads :
    \/ \E r \in Recs : Admit(r) /\ CallLoad(t, r)
    \/ LoadCheck(t)
    \/ LoadOpen(t)
    \/ LoadLookup(t)
    \/ LoadExport(t)
    \/ RegName(t)
    \/ RegVersion(t)
    \/ RegCheck(t)
    \/ RegNotify(t)
    \/ ExportRet(t)
    \/ LoadReturn(t)
    \/ \E r \in Exercised : Admit(r) /\ CallUnload(t, r)
    \/ UnloadCheck(t)
    \/ UnloadLookup(t)
    \/ UnloadExport(t)
    \/ UnloadSet(t)
    \/ UnloadReturn(t)
    \/ \E r \in Exercised : Admit(r) /\ CallReload(t, r)
    \/ ReloadCallLoad(t)
    \/ ReloadRLock(t)
    \/ ReloadSet(t)
    \/ ReloadReturn(t)
    \/ \E r \in Exercised, fun \in Funs : Admit(r) /\ CallGetFunc(t, r, fun)
    \/ GetFuncBody(t)
    \/ GetFuncReturn(t)
    \/ \E r \in Exercised, fun \in Funs : Admit(r) /\ CallCall(t, r, fun)
    \/ \E module \in Modules, fun \in Funs : PkgCall(t, module, fun)
    \/ CallInvoke(t)
    \/ CallReturn(t)

Spec == Init /\ [][Next]_vars

\* ------------------------------------------- calls of a bound function
\* plugin.go:212-224: GetFunc binds a symbol of any signature.
Bound ==
  {[phase |-> "bound", inTypes |-> ts, lo |-> lo, params |-> <<>>,
    res |-> [panic |-> FALSE, dispatched |-> FALSE, out |-> <<>>]] :
     ts \in SeqsUpTo(Types, MaxParams), lo \in 0..MaxReturns}

\* f(params...): one call of a bound function.
InvokeCall ==
  /\ inv.phase = "bound"
  /\ \E params \in SeqsUpTo(Args, MaxParams + 1) :
       inv' = [inv EXCEPT !.phase = "called", !.params = params,
                          !.res = Invoke(inv.inTypes, inv.lo, params)]
  /\ UNCHANGED <<recVars, mu, envVars, afterUnload, histVars, th>>

InitInvoke ==
  /\ status = [r \in Recs |-> PluginStatusNone]
  /\ name = [r \in Recs |-> ""]
  /\ version = [r \in Recs |-> 0]
  /\ plugin = [r \in Recs |-> Nil]
  /\ cache = [r \in Recs |-> {}]
  /\ mu = [r \in Recs |-> Unlocked]
  /\ artifact = [r \in Recs |-> Unopened]
  /\ registry = {}
  /\ lastExport = [r \in Recs |-> "none"]
  /\ afterUnload = [r \in Recs |-> FALSE]
  /\ everLoaded = [r \in Recs |-> FALSE]
  /\ tally = [r \in Recs |-> NoTally]
  /\ binds = [r \in Recs |-> NoBinds]
  /\ th = [t \in Threads |-> Idle]
  /\ inv \in Bound

SpecInvoke == InitInvoke /\ [][InvokeCall]_vars

\* ============================================================ claims
Transient ==
  {PluginStatusLoading, PluginStatusUnloading, PluginStatusReloading}

\* The edges of the documented state machine.
Edges ==
  {<<PluginStatusNone, PluginStatusLoading>>,
   <<PluginStatusLoading, PluginStatusLoaded>>,
   <<PluginStatusLoading, PluginStatusNone>>,
   <<PluginStatusLoaded, PluginStatusReloading>>,
   <<PluginStatusLoaded, PluginStatusUnloading>>,
   <<PluginStatusReloading, PluginStatusUnloaded>>,
   <<PluginStatusUnloading, PluginStatusUnloaded>>,
   <<PluginStatusUnloaded, PluginStatusLoading>>}

\* C1: every change of a record's status follows an edge of the documented
\* state machine (so Loaded reaches Unloaded only through Unloading or
\* Reloading, and only Loading precedes Loaded).
C1_StatusFollowsEdges ==
  [][\A r \in Recs :
       status'[r] # status[r] => <<status[r], status'[r]>> \in Edges]_vars

\* C2: once an Unload that ran has returned, and until a later Load, the
\* artifact handle is absent and every GetFunc returns "plugin not loaded".
C2_UnloadClearsHandle ==
  \A r \in Recs :
    afterUnload[r] =>
      /\ plugin[r] = Nil
      /\ \A t \in Threads :
           th[t].pc = "GetFuncRet" /\ th[t].rec = r => th[t].ret = ErrNotLoaded

\* C3: with no lifecycle call in progress on a record (every call on it has
\* returned), its status is not Loading, Unloading or Reloading.
C3_NoTransientAtRest ==
  \A r \in Recs : Active(r) = {} => status[r] \notin Transient

\* C4: when Load returns nil the status is Loaded, and when its callback was
\* invoked the name and version are non-empty exactly when the callback's
\* arguments were.
C4_LoadNilMeansLoaded ==
  \A t \in Threads :
    th[t].pc = "LoadRet" /\ th[t].ret = Nil =>
      /\ status[th[t].rec] = PluginStatusLoaded
      /\ th[t].cb # NoRet =>
           /\ (name[th[t].rec] # "") = (th[t].rn # "")
           /\ (version[th[t].rec] # 0) = (th[t].rv # 0)

\* The fields of record r, and what the Manager and the artifact loader
\* hold of it.
Fields(r) == <<status[r], name[r], version[r], plugin[r], cache[r]>>
EntriesOf(r) == {e \in registry : e[3] = r}
Env(r) == <<artifact[r], lastExport[r], EntriesOf(r)>>

\* The registration callback of t finds its (name, version) registered.
Duplicate(t) == GetPluginWithVersion(th[t].rn, th[t].rv) # {}

\* C5: when the Registry already holds the declared (name, version), the
\* registration callback returns the duplicate-load error, the Registry is
\* not notified and keeps what it held, every other record is left as it
\* was, and the status is None from then until Load has returned.
C5_DuplicateRejected ==
  [][\A t \in Threads, r \in Recs :
       th[t].rec = r =>
       /\ (th[t].pc = "RegCheck" /\ th'[t].pc # "RegCheck" /\ Duplicate(t)) =>
            /\ th'[t].cb = ErrDuplicate
            /\ th'[t].pc = "ExportRet"
            /\ status'[r] = PluginStatusNone
            /\ registry' = registry
            /\ \A h \in Recs \ {r} : Fields(h)' = Fields(h)
       /\ (th[t].pc \in {"ExportRet", "LoadRet"} /\ th[t].cb = ErrDuplicate) =>
            /\ status[r] = PluginStatusNone
            /\ EntriesOf(r)' = EntriesOf(r)]_vars

\* C5 happens: a Load is returning whose callback was rejected because
\* another record holds the declared name and version.
C5_Witness ==
  \E t \in Threads :
    /\ th[t].pc = "LoadRet"
    /\ th[t].cb = ErrDuplicate
    /\ \E e \in registry :
         e[1] = th[t].rn /\ e[2] = th[t].rv /\ e[3] # th[t].rec

\* A Reload of t on a Loaded record has returned; no other call on the
\* record was in progress meanwhile (the claim describes one caller), and the
\* Registry accepted the (name, version) the artifact declared on its Load.
ReloadedAlone(t) ==
  /\ th[t].op = "Reload"
  /\ th[t].pc = "ReloadRet"
  /\ th[t].solo
  /\ th[t].s0 = PluginStatusLoaded
  /\ th[t].cb = Nil

\* C6 as claimed: such a Reload returns nil, with status Loaded and the
\* version the artifact declared on this Load.
C6_ReloadReturnsNil ==
  \A t \in Threads :
    ReloadedAlone(t) =>
      /\ th[t].ret = Nil
      /\ status[th[t].rec] = PluginStatusLoaded
      /\ version[th[t].rec] = th[t].rv

\* C6 amended: such a Reload ends with status Loaded and the name and
\* version the artifact declared on this Load, and returns what the Load
\* export returned: nil when the export returned nil, else its error.
C6_ReloadTakesNewVersion ==
  \A t \in Threads :
    ReloadedAlone(t) =>
      /\ status[th[t].rec] = PluginStatusLoaded
      /\ version[th[t].rec] = th[t].rv
      /\ name[th[t].rec] = th[t].rn
      /\ th[t].xret \in {Nil, ErrArtifact}
      /\ th[t].ret = th[t].xret

\* C6 happens: Reload returns nil, and the version declared on the second
\* Load differs from the one the record had when Reload was called.
C6_Witness ==
  \E t \in Threads :
    /\ ReloadedAlone(t)
    /\ th[t].ret = Nil
    /\ th[t].v0 # 0
    /\ th[t].rv # th[t].v0
    /\ version[th[t].rec] # th[t].v0

\* C7: a bound function of any parameter count and return arity, called
\* with a wrong number of arguments or an argument of another type, does not
\* panic, is not dispatched, and returns as many slots as it has return
\* values, the error last and the others nil; a call that is dispatched
\* returns that many slots too.
C7_InvokeUniform ==
  inv.phase = "called" =>
    LET wrong == \/ Len(inv.params) # Len(inv.inTypes)
                 \/ \E k \in 1..Len(inv.params) : inv.params[k] # inv.inTypes[k]
        out == inv.res.out
    IN /\ ~inv.res.panic
       /\ Len(out) = inv.lo
       /\ wrong =>
            /\ ~inv.res.dispatched
            /\ inv.lo > 0 =>
                 /\ out[inv.lo] \in {ErrArity, ErrType}
                 /\ \A i \in 1..(inv.lo - 1) : out[i] = Nil

\* C8: Load called while the status is neither None nor Unloaded returns nil
\* and changes nothing: from taking the lock to releasing it, the record's
\* fields, its artifact, its exports and the Registry stay as they were, and
\* the call goes from the guard straight to its return.
C8_LoadNoopChangesNothing ==
  [][\A t \in Threads, r \in Recs :
       (/\ th[t].rec = r \/ th'[t].rec = r
        /\ status[r] \notin {PluginStatusNone, PluginStatusUnloaded}
        /\ th'[t] # th[t]
        /\ \/ th[t].pc \in {"idle", "ReloadLoad"} /\ th'[t].pc = "LoadCheck"
           \/ th[t].pc = "LoadCheck"
           \/ th[t].pc = "LoadRet" /\ th[t].cb = NoRet /\ th[t].xret = NoRet)
       => /\ Fields(r)' = Fields(r)
          /\ Env(r)' = Env(r)
          /\ th[t].pc = "LoadCheck" =>
               th'[t].pc = "LoadRet" /\ th'[t].ret = Nil
          /\ th[t].pc = "LoadRet" => th[t].ret = Nil]_vars

\* C8 happens: a Load called on a Loaded record is returning, and the Load
\* export did not run in it.
C8_Witness ==
  \E t \in Threads :
    /\ th[t].op = "Load"
    /\ th[t].pc = "LoadRet"
    /\ th[t].xret = NoRet
    /\ status[th[t].rec] = PluginStatusLoaded

\* The positions of Unload after its guard.
UnloadRan == {"UnloadLookup", "UnloadExport", "UnloadSet", "UnloadRet"}

\* C9 as claimed: an Unload that passed its guard has emptied the cache
\* before the export is resolved, and returns with status Unloaded and
\* exactly the export's error.
C9_UnloadAlwaysUnloaded ==
  \A t \in Threads :
    th[t].pc \in UnloadRan /\ th[t].ran =>
      /\ cache[th[t].rec] = {}
      /\ th[t].pc = "UnloadRet" =>
           /\ status[th[t].rec] = PluginStatusUnloaded
           /\ th[t].uerr \in {Nil, ErrArtifact}
           /\ th[t].ret = th[t].uerr

\* C9 amended: an Unload that passed its guard has emptied the cache before
\* the export is resolved.  When the artifact has an Unload export, it
\* returns with status Unloaded and exactly the export's error; when it has
\* none, it returns the lookup's error and the status stays as it was.  An
\* Unload called with status None, Unloaded or Unloading returns nil and
\* changes nothing.
C9_UnloadSemantics ==
  /\ [](\A t \in Threads :
          th[t].pc \in UnloadRan /\ th[t].ran =>
            /\ cache[th[t].rec] = {}
            /\ th[t].pc = "UnloadRet" =>
                 IF "Unload" \in artifact[th[t].rec].syms
                   THEN /\ status[th[t].rec] = PluginStatusUnloaded
                        /\ th[t].uerr \in {Nil, ErrArtifact}
                        /\ th[t].ret = th[t].uerr
                   ELSE /\ th[t].ret = ErrSymbol
                        /\ th[t].uerr = NoRet
                        /\ status[th[t].rec] \notin
                             {PluginStatusNone, PluginStatusUnloaded,
                              PluginStatusUnloading})
  /\ [][\A t \in Threads, r \in Recs :
          /\ (/\ th[t].rec = r
              /\ th[t].pc = "UnloadLookup"
              /\ "Unload" \notin artifact[r].syms
              /\ th'[t] # th[t])
             => status'[r] = status[r] /\ th'[t].pc = "UnloadRet"
          /\ (/\ th[t].rec = r \/ th'[t].rec = r
              /\ status[r] \in {PluginStatusNone, PluginStatusUnloaded,
                                PluginStatusUnloading}
              /\ th'[t] # th[t]
              /\ \/ th[t].pc = "idle" /\ th'[t].pc = "UnloadCheck"
                 \/ th[t].pc = "UnloadCheck"
                 \/ th[t].pc = "UnloadRet" /\ ~th[t].ran)
             => /\ Fields(r)' = Fields(r)
                /\ Env(r)' = Env(r)
                /\ th[t].pc = "UnloadCheck" =>
                     th'[t].pc = "UnloadRet" /\ th'[t].ret = Nil
                /\ th[t].pc = "UnloadRet" => th[t].ret = Nil]_vars

\* C9 happens: an Unload is returning the error of the Unload export, the
\* status Unloaded.
C9_Witness ==
  \E t \in Threads :
    /\ th[t].pc = "UnloadRet"
    /\ th[t].ran
    /\ th[t].uerr = ErrArtifact
    /\ status[th[t].rec] = PluginStatusUnloaded

\* C10: when the artifact cannot be opened, or has no Load export, Load
\* returns that error with status None; neither export of the artifact has
\* ever run, the callback was not invoked, and the Registry holds nothing
\* of the record.
C10_LoadFailsToNone ==
  \A t \in Threads :
    LET r == th[t].rec IN
    (/\ th[t].pc = "LoadRet"
     /\ \/ artifact[r].st = "failed"
        \/ artifact[r].st = "ok" /\ "Load" \notin artifact[r].syms)
    => /\ th[t].ret = IF artifact[r].st = "failed" THEN ErrOpen ELSE ErrSymbol
       /\ status[r] = PluginStatusNone
       /\ lastExport[r] = "none"
       /\ th[t].cb = NoRet
       /\ th[t].xret = NoRet
       /\ EntriesOf(r) = {}

\* C10 happens: a Load is returning the lookup's error; the artifact was
\* opened and has no Load export.
C10_Witness ==
  \E t \in Threads :
    /\ th[t].pc = "LoadRet"
    /\ th[t].ret = ErrSymbol
    /\ artifact[th[t].rec].st = "ok"
    /\ plugin[th[t].rec] # Nil

\* The tallies of a record that went through one load: the status was set
\* Loading once, the Load export invoked once, OnLoaded called once.
OneLoad == [loading |-> 1, exports |-> 1, onLoaded |-> 1]

C12_BoundOncePerGeneration ==
  \A r \in Recs, fun \in Funs :
    /\ binds[r][fun] <= 1
    /\ Cached(r, fun) \subseteq {<<fun, 1>>}
    /\ (Cached(r, fun) # {}) = (binds[r][fun] = 1)
    /\ \A t \in Threads :
         (/\ th[t].pc = "GetFuncRet"
          /\ th[t].rec = r
          /\ th[t].fun = fun
          /\ th[t].ret = Nil)
         => th[t].got = {1} /\ Cached(r, fun) = {<<fun, 1>>}

\* C12 happens: on a Loaded record a GetFunc returns the binding it found
\* in the cache while another caller, who got the same name bound, is about
\* to invoke it.
C12_Witness ==
  \E t, u \in Threads :
    /\ t # u
    /\ th[t].pc = "GetFuncRet"
    /\ th[t].hit
    /\ th[t].got = {1}
    /\ status[th[t].rec] = PluginStatusLoaded
    /\ th[u].pc = "CallInvoke"
    /\ th[u].rec = th[t].rec

\* C13: until the status of a record has been Loaded for the first time,
\* its name is empty and its version zero, also after a Load that failed;
\* stated of the record at rest, every call on it returned.
C13_IdentityEmptyUntilLoaded ==
  \A r \in Recs :
    Active(r) = {} /\ ~everLoaded[r] => name[r] = "" /\ version[r] = 0

\* A Call of t, of the record or of the package, has returned, and its
\* result was kept: no other call on the record was in progress meanwhile.
CallReturned(t) ==
  /\ th[t].op = "Call"
  /\ th[t].pc = "CallRet"
  /\ th[t].solo

\* C14: when GetFunc fails (no artifact handle, the symbol not found, or
\* the Manager has no record under the name) Call returns the list of one
\* element, the error, and no plugin code was dispatched; otherwise Call
\* returns exactly what the bound function returns for the arguments.  On a
\* record, GetFunc fails exactly when the handle is absent or the artifact
\* does not export the name.
C14_CallWrapsGetFuncError ==
  \A t \in Threads :
    CallReturned(t) =>
      /\ IF th[t].ret # Nil
           THEN /\ th[t].res.out = <<th[t].ret>>
                /\ ~th[t].res.dispatched
                /\ ~th[t].res.panic
           ELSE th[t].res =
                  Invoke(Signature.inTypes, Signature.lo, th[t].params)
      /\ th[t].rec = NoRec => th[t].ret = ErrNoPlugin
      /\ \A r \in Recs :
           th[t].rec = r =>
             th[t].ret = IF plugin[r] = Nil THEN ErrNotLoaded
                         ELSE IF ~Lookup(r, th[t].fun) THEN ErrSymbol
                         ELSE Nil

\* C14 happens: a Call of a name the opened artifact does not export has
\* returned the one-element list of the lookup's error.
C14_Witness ==
  \E t \in Threads :
    /\ CallReturned(t)
    /\ th[t].ret = ErrSymbol
    /\ th[t].res.out = <<ErrSymbol>>
    /\ plugin[th[t].rec] # Nil

\* C15: the function cache of a record holds a binding only while the
\* status is Loaded: none is made on a record that is None after a failed
\* Load, nor after an Unload until a later Load has succeeded.
C15_CacheOnlyWhileLoaded ==
  \A r \in Recs : cache[r] # {} => status[r] = PluginStatusLoaded

\* The positions from which a caller's next step calls setStatus: in Load
\* (plugin.go:112, :117, :124), in the registration callback (:135, :139),
\* in Unload (:185) and in Reload (:162).
StatusWrites ==
  {"LoadCheck", "LoadOpen", "LoadLookup", "RegCheck", "UnloadSet", "ReloadSet"}

\* C16: a caller about to write the status of a record holds the write lock
\* of that record; no status write is made under a read lock or no lock.
C16_StatusWrittenUnderLock ==
  \A t \in Threads :
    th[t].pc \in StatusWrites => mu[th[t].rec].w = {t}

\* C17: whenever no call is in progress on a record and its status is
\* Loaded, the export of the artifact that ran last is not Unload; stated
\* of a record whose artifact has registered with the Registry.
C17_LoadedNotAfterUnload ==
  \A r \in Recs :
    Active(r) = {} /\ status[r] = PluginStatusLoaded /\ EntriesOf(r) # {} =>
      lastExport[r] # "Unload"

\* plugin.go:86-100: Status(), Name() and Version() read the fields of the
\* record without taking its lock; a reader obtains what the record holds
\* in the state in which it reads.
Name(r) == name[r]
Version(r) == version[r]
Status(r) == status[r]

\* C18: what Name() and Version() return changes only together, in the one
\* step that also makes Status() return Loaded, and to the name and version
\* of one registration: no reader obtains a new name with an old version, or
\* a declared identity with a status that is still Loading or is None.
C18_IdentityObservedAtomically ==
  [][\A r \in Recs :
       <<Name(r), Version(r)>>' # <<Name(r), Version(r)>> =>
         /\ Status(r)' = PluginStatusLoaded
         /\ \E t \in Threads :
              /\ th[t].rec = r
              /\ Name(r)' = th[t].rn
              /\ Version(r)' = th[t].rv]_vars

\* A Reload of t on a Loaded record has returned, with no other call on the
\* record in progress meanwhile; the Registry holds the record under the
\* (non-empty) name and the version it had when Reload was called, and the
\* artifact declared that same name and version on the Load of this Reload.
ReloadedSame(t) ==
  /\ th[t].op = "Reload"
  /\ th[t].pc = "ReloadRet"
  /\ th[t].solo
  /\ th[t].s0 = PluginStatusLoaded
  /\ th[t].n0 # ""
  /\ <<th[t].n0, th[t].v0, th[t].rec>> \in registry
  /\ th[t].cb # NoRet
  /\ th[t].rn = th[t].n0
  /\ th[t].rv = th[t].v0

\* C19: with a Registry that keeps every plugin given to OnLoaded, a Reload
\* of a Loaded record whose artifact declares its name and version again
\* returns nil and ends with status Loaded, and register did not report the
\* record's own earlier registration as a duplicate.
C19_ReloadSameVersion ==
  \A t \in Threads :
    ReloadedSame(t) =>
      /\ th[t].cb = Nil
      /\ th[t].ret = Nil
      /\ status[th[t].rec] = PluginStatusLoaded

\* The statuses under which the guard of Unload returns at once.
HandleNotNeeded ==
  {PluginStatusNone, PluginStatusUnloaded, PluginStatusUnloading}

\* A Load on r holds the write lock and is between setting Loading
\* (plugin.go:112) and storing the handle Open returned (plugin.go:120).
Opening(r) ==
  \E t \in Threads :
    th[t].rec = r /\ th[t].pc = "LoadOpen" /\ mu[r].w = {t}

\* Unload is about to resolve, or has resolved, its export on a nil handle.
UnloadOnAbsentHandle(t) ==
  \/ th[t].pc = "Panic"
  \/ th[t].pc = "UnloadLookup" /\ plugin[th[t].rec] = Nil

\* C20 as claimed: in every reachable state a status outside None, Unloaded
\* and Unloading implies that the artifact handle is present, and Unload
\* never resolves its export on an absent handle.
C20_HandlePresentInEveryState ==
  /\ \A r \in Recs : status[r] \notin HandleNotNeeded => plugin[r] # Nil
  /\ \A t \in Threads : ~UnloadOnAbsentHandle(t)

\* C20 amended: a status outside None, Unloaded and Unloading implies that
\* the handle is present in every state but those in which a Load holding
\* the write lock has set Loading and not yet stored the handle; Unload,
\* which takes the same lock, never resolves its export on an absent handle.
C20_HandlePresentUnlessOpening ==
  /\ \A r \in Recs :
       status[r] \notin HandleNotNeeded /\ ~Opening(r) => plugin[r] # Nil
  /\ \A t \in Threads : ~UnloadOnAbsentHandle(t)

\* C20 happens: Unload has passed its guard on a record left in Loading by
\* a Load whose export did not register, and resolves its export on the
\* handle that Load stored.
C20_Witness ==
  \E t \in Threads :
    /\ th[t].pc = "UnloadLookup"
    /\ th[t].ran
    /\ status[th[t].rec] = PluginStatusLoading
    /\ plugin[th[t].rec] # Nil

====
